---- MODULE Spec2Model ----
(***************************************************************************)
(* Batch training of the customs knowledge base (src/src/batch_train.py):  *)
(* linkage-key canonicalization, description normalization, consolidation  *)
(* validation, positional alignment, majority vote and the publish step    *)
(* against the MySQL store configured in src/src/database.py.              *)
(*                                                                         *)
(* Strings are sequences of characters; a character is a one-token string. *)
(* Characters outside ASCII are written as tokens:                         *)
(*   "FWA"  U+FF21 FULLWIDTH LATIN CAPITAL LETTER A  (NFKC -> "A")         *)
(*   "FWa"  U+FF41 FULLWIDTH LATIN SMALL LETTER A    (NFKC -> "a")         *)
(*   "FW/"  U+FF0F FULLWIDTH SOLIDUS                 (NFKC -> "/")         *)
(*   "kra"  U+0138 LATIN SMALL LETTER KRA (lowercase, no uppercase form)   *)
(*   "iota_dt" U+0390 GREEK SMALL LETTER IOTA WITH DIALYTIKA AND TONOS     *)
(*   "IOTA"    U+0399 GREEK CAPITAL LETTER IOTA                            *)
(*   "IOTA_D"  U+03AA GREEK CAPITAL LETTER IOTA WITH DIALYTIKA             *)
(*   "dial"    U+0308 COMBINING DIAERESIS   "tonos" U+0301 COMBINING ACUTE *)
(***************************************************************************)
EXTENDS Integers, Sequences, FiniteSets, TLC

\* ------------------------------------------------------------------ bounds
\* longest identifier / description explored by the pure-function specifications
MaxKeyLen == 3
MaxTextLen == 3
\* rows per table in the linkage profile, and item ordinals 1..MaxOrd
MaxLink == 2
MaxOrd == 2
\* rows per table in the voting profile
MaxVote == 3
\* rows per table and number of sequential runs in the publish specification
MaxPub == 2
MaxRuns == 2

\* longest master id and house id of one row, taken together
MaxPairLen == 3

VARIABLES
    \* --- persisted store (MySQL)
    tableA,         \* table_a_raw rows, in the order a SELECT returns them
    tableB,         \* table_b_history rows
    kb,             \* committed rows of standard_knowledge_base
    backups,        \* archive tables: set of [name |-> timestamp, rows |-> ...]
    \* --- one run of train_model
    pc,             \* position of the run
    final_valid_keys,
    pairs,          \* zip of the two sorted frames, as <<index in A, index in B>>
    final_records,
    pending,        \* rows inserted in the open transaction, not yet committed
    toInsert,       \* rows of df_knowledge still to be written by to_sql
    now,            \* wall clock, in seconds (datetime.now())
    runs,           \* runs started so far
    runsAllowed,    \* how many sequential runs the scenario schedules
    outcome,        \* how the run ended (what training.log records)
    returned,       \* what the caller of train_model() receives
    kb0,            \* kb when the run started
    backups0,       \* backups when the run started
    \* --- pure-function specifications
    input,          \* the string under test
    variant,        \* a string differing from input by one case/separator edit
    out1,           \* the function applied to variant
    out2,           \* the function applied to out1
    fpc             \* "input" | "once" | "twice"

vars == <<tableA, tableB, kb, backups, pc, final_valid_keys, pairs, final_records,
          pending, toInsert, now, runs, runsAllowed, outcome, returned, kb0,
          backups0, input, variant, out1, out2, fpc>>

pipeVars == <<tableA, tableB, kb, backups, pc, final_valid_keys, pairs,
              final_records, pending, toInsert, now, runs, runsAllowed, outcome,
              returned, kb0, backups0>>

funVars == <<input, variant, out1, out2, fpc>>

\* ------------------------------------------------------------ characters

\* str.upper() on one character (full case mapping: one character may become more)
UpperChar(c) ==
    CASE c = "a" -> <<"A">>
      [] c = "b" -> <<"B">>
      [] c = "h" -> <<"H">>
      [] c = "FWa" -> <<"FWA">>
      [] c = "iota_dt" -> <<"IOTA", "dial", "tonos">>
      [] OTHER -> <<c>>

\* a character that str.upper() changes (a cased lowercase letter)
HasUpper(c) == UpperChar(c) # <<c>>

\* regex \s
IsSpace(c) == c \in {" ", "\t"}

\* regex \w : str.isalnum() or "_"
IsWord(c) ==
    c \in {"a", "b", "h", "A", "B", "H", "1", "2", "_", "kra", "FWa", "FWA",
           "iota_dt", "IOTA", "IOTA_D"}

\* Unicode general category P* (punctuation)
IsPunct(c) == c \in {"/", "-", "_", ".", "FW/"}

\* unicodedata.normalize('NFKC', .) on one character
NFKCChar(c) ==
    CASE c = "FWa" -> "a"
      [] c = "FWA" -> "A"
      [] c = "FW/" -> "/"
      [] OTHER -> c

\* canonical composition: a capital iota followed by a combining diaeresis
\* becomes the precomposed letter (no precomposed form takes the acute as well)
RECURSIVE Compose(_)
Compose(s) ==
    IF Len(s) < 2 THEN s
    ELSE IF s[1] = "IOTA" /\ s[2] = "dial"
         THEN <<"IOTA_D">> \o Compose(SubSeq(s, 3, Len(s)))
         ELSE <<s[1]>> \o Compose(Tail(s))

\* unicodedata.normalize('NFKC', .)
NFKC(s) == Compose([i \in 1..Len(s) |-> NFKCChar(s[i])])

\* code point, for Python's string ordering
Ord(c) ==
    CASE c = "\t" -> 9
      [] c = " " -> 32
      [] c = "-" -> 45
      [] c = "." -> 46
      [] c = "/" -> 47
      [] c = "1" -> 49
      [] c = "2" -> 50
      [] c = "A" -> 65
      [] c = "B" -> 66
      [] c = "H" -> 72
      [] c = "_" -> 95
      [] c = "a" -> 97
      [] c = "b" -> 98
      [] c = "h" -> 104
      [] c = "kra" -> 312
      [] c = "tonos" -> 769
      [] c = "dial" -> 776
      [] c = "iota_dt" -> 912
      [] c = "IOTA" -> 921
      [] c = "IOTA_D" -> 938
      [] c = "FW/" -> 65295
      [] c = "FWA" -> 65313
      [] c = "FWa" -> 65345
      [] OTHER -> 0

RECURSIVE Flatten(_)
Flatten(ss) == IF ss = <<>> THEN <<>> ELSE Head(ss) \o Flatten(Tail(ss))

\* str.upper()
Upper(s) == Flatten([i \in 1..Len(s) |-> UpperChar(s[i])])

\* str < str in Python: lexicographic by code point
RECURSIVE StrLess(_, _)
StrLess(s, t) ==
    IF t = <<>> THEN FALSE
    ELSE IF s = <<>> THEN TRUE
    ELSE IF Ord(Head(s)) # Ord(Head(t)) THEN Ord(Head(s)) < Ord(Head(t))
    ELSE StrLess(Tail(s), Tail(t))

\* all strings over alphabet of length at most n
StringsUpTo(alphabet, n) == UNION {[1..k -> alphabet] : k \in 0..n}

\* ------------------------------------------------- linkage key builder

\* the character class [\s/-] of the key regex
IsKeySep(c) == IsSpace(c) \/ c = "/" \/ c = "-"

\* re.sub with count=1: only the first match is removed
RemoveFirstSep(s) ==
    IF \E i \in 1..Len(s) : IsKeySep(s[i])
    THEN LET i == CHOOSE j \in 1..Len(s) :
                     IsKeySep(s[j]) /\ \A k \in 1..(j - 1) : ~IsKeySep(s[k])
         IN SubSeq(s, 1, i - 1) \o SubSeq(s, i + 1, Len(s))
    ELSE s

\* .str.replace(r'[\s/-]', '', regex=True)
RemoveSeps(s) == SelectSeq(s, LAMBDA c : ~IsKeySep(c))

\* df['mawb_clean'] / df['hawb_clean']
Canonicalize(s) == Upper(RemoveSeps(s))

\* df['link_key']
LinkKey(row) == Canonicalize(row.mawb_no) \o <<"_">> \o Canonicalize(row.hawb_no)

\* ------------------------------------------------ description normalizer

ContainsSlash(s) == \E i \in 1..Len(s) : s[i] = "/"

\* text_val.split('/')[0]: the segment before the first "/"
FirstSegment(s) ==
    LET i == CHOOSE j \in 1..Len(s) :
                 s[j] = "/" /\ \A k \in 1..(j - 1) : s[k] # "/"
    IN SubSeq(s, 1, i - 1)

\* text_val.split('/')[-1]
LastSegment(s) ==
    LET i == CHOOSE j \in 1..Len(s) :
                 s[j] = "/" /\ \A k \in (j + 1)..Len(s) : s[k] # "/"
    IN SubSeq(s, i + 1, Len(s))

\* re.sub(r'[^\w\s]', ' ', .)
PunctToSpace(s) ==
    [i \in 1..Len(s) |-> IF IsWord(s[i]) \/ IsSpace(s[i]) THEN s[i] ELSE " "]

\* re.sub(r'\s+', ' ', .)
RECURSIVE CollapseSpaces(_)
CollapseSpaces(s) ==
    IF s = <<>> THEN <<>>
    ELSE IF IsSpace(Head(s))
         THEN IF Len(s) > 1 /\ IsSpace(s[2])
              THEN CollapseSpaces(Tail(s))
              ELSE <<" ">> \o CollapseSpaces(Tail(s))
         ELSE <<Head(s)>> \o CollapseSpaces(Tail(s))

\* str.strip()
RECURSIVE StripLeft(_)
StripLeft(s) == IF s # <<>> /\ IsSpace(Head(s)) THEN StripLeft(Tail(s)) ELSE s

RECURSIVE StripRight(_)
StripRight(s) ==
    IF s # <<>> /\ IsSpace(s[Len(s)]) THEN StripRight(SubSeq(s, 1, Len(s) - 1)) ELSE s

Strip(s) == StripRight(StripLeft(s))

\* step 5 with the trim applied before the punctuation replacement and collapse
TrimThenClean(s) == CollapseSpaces(PunctToSpace(Strip(s)))

\* steps 4 and 5 of normalize_text
CleanSpaces(s) == Strip(CollapseSpaces(PunctToSpace(s)))

normalize_text(s) ==
    IF s = <<>> THEN <<>>
    ELSE LET nfkc == NFKC(s)
             up == Upper(nfkc)
             seg == IF ContainsSlash(up) THEN LastSegment(up) ELSE up
         IN CleanSpaces(seg)

\* ------------------------------------- shipment consolidation validator

\* the distinct link_key values of a frame (the index of groupby('link_key').size())
KeysOf(df) == {LinkKey(df[i]) : i \in DOMAIN df}

\* groupby('link_key').size()[k]
CountKey(df, k) == Cardinality({i \in DOMAIN df : LinkKey(df[i]) = k})

\* the index intersection alone, without the count mask
SharedKeys(dfa, dfb) == KeysOf(dfa) \cap KeysOf(dfb)

\* final_valid_keys: keys of both sides whose counts are equal
ValidKeys(dfa, dfb) ==
    {k \in KeysOf(dfa) \cap KeysOf(dfb) : CountKey(dfa, k) = CountKey(dfb, k)}

\* ------------------------------------------------ position-based aligner

\* df[df['link_key'].isin(keys)] without the sort: arrival order
FilteredIdx(df, keys, col) ==
    LET sel == {i \in DOMAIN df : LinkKey(df[i]) \in keys}
        Rank(i) == 1 + Cardinality({j \in sel : j < i})
    IN [p \in 1..Cardinality(sel) |-> CHOOSE i \in sel : Rank(i) = p]

\* df[df['link_key'].isin(keys)].sort_values(by=['link_key', <ordinal>]), as the
\* row indices in sorted order, col being the ordinal column; a sort on several
\* columns is stable in pandas
SortedIdx(df, keys, col) ==
    LET sel == {i \in DOMAIN df : LinkKey(df[i]) \in keys}
        Before(i, j) ==
            \/ StrLess(LinkKey(df[i]), LinkKey(df[j]))
            \/ /\ LinkKey(df[i]) = LinkKey(df[j])
               /\ \/ df[i][col] < df[j][col]
                  \/ df[i][col] = df[j][col] /\ i < j
        Rank(i) == 1 + Cardinality({j \in sel : Before(j, i)})
    IN [p \in 1..Cardinality(sel) |-> CHOOSE i \in sel : Rank(i) = p]

Min(a, b) == IF a < b THEN a ELSE b

\* zip(train_source, train_target_desc, train_target_ccc), by row index
ZipPairs(dfa, dfb, keys) ==
    LET ia == SortedIdx(dfa, keys, "item_no")
        ib == SortedIdx(dfb, keys, "item_sequence")
    IN [p \in 1..Min(Len(ia), Len(ib)) |-> <<ia[p], ib[p]>>]

\* the (src, tgt_desc, tgt_ccc) triple of one zipped position
TripleOf(dfa, dfb, pr) ==
    [src |-> normalize_text(dfa[pr[1]].description_original),
     tgt |-> <<dfb[pr[2]].description_official, dfb[pr[2]].ccc_code>>]

Triples(dfa, dfb, prs) == [p \in 1..Len(prs) |-> TripleOf(dfa, dfb, prs[p])]

\* --------------------------------------------------- knowledge aggregator

\* no source is skipped
NeverSkip(src) == FALSE

\* "if not src: continue"
SkipSource(src) == src = <<>>

\* Counter[(tgt_desc, tgt_ccc)] += 1 ; a Counter keeps insertion order
AddVote(tally, tgt) ==
    IF \E i \in DOMAIN tally : tally[i].tgt = tgt
    THEN [i \in DOMAIN tally |->
            IF tally[i].tgt = tgt THEN [tally[i] EXCEPT !.n = @ + 1] ELSE tally[i]]
    ELSE Append(tally, [tgt |-> tgt, n |-> 1])

\* the voting loop over the zipped triples; knowledge_map keeps insertion order
RECURSIVE Vote(_, _)
Vote(km, triples) ==
    IF triples = <<>> THEN km
    ELSE LET t == Head(triples)
             km1 == IF \E i \in DOMAIN km : km[i].src = t.src
                    THEN km
                    ELSE Append(km, [src |-> t.src, tally |-> <<>>])
             km2 == [i \in DOMAIN km1 |->
                       IF km1[i].src = t.src
                       THEN [km1[i] EXCEPT !.tally = AddVote(@, t.tgt)]
                       ELSE km1[i]]
         IN IF SkipSource(t.src) THEN Vote(km, Tail(triples))
            ELSE Vote(km2, Tail(triples))

\* the last of the entries with the highest count
MostCommonLast(tally) ==
    tally[CHOOSE i \in DOMAIN tally :
            \A j \in DOMAIN tally :
                /\ tally[j].n <= tally[i].n
                /\ j > i => tally[j].n < tally[i].n]

\* counter.most_common(1)[0]: heapq.nlargest(1, ..) is max(), the first of the
\* entries with the highest count
MostCommon(tally) ==
    tally[CHOOSE i \in DOMAIN tally :
            \A j \in DOMAIN tally :
                /\ tally[j].n <= tally[i].n
                /\ j < i => tally[j].n < tally[i].n]

\* final_records
FinalRecords(km) ==
    [i \in DOMAIN km |->
        LET w == MostCommon(km[i].tally)
        IN [original_description |-> km[i].src,
            official_description |-> w.tgt[1],
            ccc_code |-> w.tgt[2],
            frequency |-> w.n]]

\* the publish step runs whatever was learned
AlwaysPublish(recs) == TRUE

\* "if final_records:"
ShouldPublish(recs) == recs # <<>>

\* ------------------------------------------------------------- the store

\* a DELETE that removes nothing: the new rows are appended to the old ones
KeepRows(rows) == rows

\* TRUNCATE TABLE standard_knowledge_base
TruncatedRows(rows) == <<>>

\* backup_table = f"standard_knowledge_base_backup_{timestamp}", second resolution
BackupName(t) == t

BackupExists(t) == \E b \in backups : b.name = BackupName(t)

\* ------------------------------------------------------------ train_model

PublishPcs == {"begin", "archived", "inserting"}

runLocals == <<final_valid_keys, pairs, final_records, pending, toInsert>>

store == <<tableA, tableB, kb, backups>>

sched == <<now, runs, runsAllowed, kb0, backups0>>

\* the run ends; train_model returns None on every path
Finish(how) ==
    /\ pc' = "done"
    /\ outcome' = how
    /\ returned' = "None"

\* get_db_engine() returned None
GetEngineFails ==
    /\ pc = "idle"
    /\ Finish("no_engine")
    /\ UNCHANGED <<store, runLocals, sched>>
    /\ UNCHANGED funVars

\* pd.read_sql raises (storage unreachable); the except clause logs it
ReadFails ==
    /\ pc = "idle"
    /\ Finish("read_error")
    /\ UNCHANGED <<store, runLocals, sched>>
    /\ UNCHANGED funVars

\* steps 1 to 5: read both tables, validate, align, vote
Learn ==
    /\ pc = "idle"
    /\ LET keys == ValidKeys(tableA, tableB)
           prs == ZipPairs(tableA, tableB, keys)
           recs == FinalRecords(Vote(<<>>, Triples(tableA, tableB, prs)))
       IN /\ final_valid_keys' = keys
          /\ IF keys = {}
             THEN /\ Finish("no_valid_keys")
                  /\ UNCHANGED <<pairs, final_records>>
             ELSE /\ pairs' = prs
                  /\ final_records' = recs
                  /\ IF ShouldPublish(recs)
                     THEN /\ pc' = "begin"
                          /\ UNCHANGED <<outcome, returned>>
                     ELSE Finish("no_records")
    /\ UNCHANGED <<store, pending, toInsert, sched>>
    /\ UNCHANGED funVars

\* row_count > 0: CREATE TABLE ... AS SELECT (DDL: commits implicitly)
Archive ==
    /\ pc = "begin"
    /\ kb # <<>>
    /\ ~BackupExists(now)
    /\ backups' = backups \cup {[name |-> BackupName(now), rows |-> kb]}
    /\ pc' = "archived"
    /\ UNCHANGED <<tableA, tableB, kb, runLocals, sched, outcome, returned>>
    /\ UNCHANGED funVars

\* row_count = 0: no backup
SkipArchive ==
    /\ pc = "begin"
    /\ kb = <<>>
    /\ pc' = "archived"
    /\ UNCHANGED <<store, runLocals, sched, outcome, returned>>
    /\ UNCHANGED funVars

\* CREATE TABLE fails: a backup of the same second exists
ArchiveNameTaken ==
    /\ pc = "begin"
    /\ kb # <<>>
    /\ BackupExists(now)
    /\ Finish("publish_error")
    /\ UNCHANGED <<store, runLocals, sched>>
    /\ UNCHANGED funVars

\* TRUNCATE TABLE: DDL in MySQL, commits implicitly and cannot be rolled back
Truncate ==
    /\ pc = "archived"
    /\ kb' = TruncatedRows(kb)
    /\ toInsert' = final_records
    /\ pc' = "inserting"
    /\ UNCHANGED <<tableA, tableB, backups, final_valid_keys, pairs, final_records,
                   pending, sched, outcome, returned>>
    /\ UNCHANGED funVars

\* to_sql(..., if_exists='append'): one more row written in the open transaction
InsertRow ==
    /\ pc = "inserting"
    /\ toInsert # <<>>
    /\ pending' = Append(pending, Head(toInsert))
    /\ toInsert' = Tail(toInsert)
    /\ UNCHANGED <<store, pc, final_valid_keys, pairs, final_records, sched,
                   outcome, returned>>
    /\ UNCHANGED funVars

\* leaving "with engine.begin()" normally: COMMIT
Commit ==
    /\ pc = "inserting"
    /\ toInsert = <<>>
    /\ kb' = kb \o pending
    /\ pending' = <<>>
    /\ Finish("ok")
    /\ UNCHANGED <<tableA, tableB, backups, final_valid_keys, pairs, final_records,
                   toInsert, sched>>
    /\ UNCHANGED funVars

\* a statement of the publish step raises: ROLLBACK of the open transaction,
\* then the except clause logs the error
PublishFails ==
    /\ pc \in PublishPcs
    /\ pending' = <<>>
    /\ Finish("publish_error")
    /\ UNCHANGED <<store, final_valid_keys, pairs, final_records, toInsert, sched>>
    /\ UNCHANGED funVars

\* the scheduler starts the next run, in the same clock second or a later one
NextRun ==
    /\ pc = "done"
    /\ runs < runsAllowed
    /\ \E dt \in {0, 1} : now' = now + dt
    /\ runs' = runs + 1
    /\ pc' = "idle"
    /\ outcome' = "none"
    /\ returned' = "none"
    /\ kb0' = kb
    /\ backups0' = backups
    /\ final_valid_keys' = {} /\ pairs' = <<>> /\ final_records' = <<>>
    /\ pending' = <<>> /\ toInsert' = <<>>
    /\ UNCHANGED <<store, runsAllowed>>
    /\ UNCHANGED funVars

\* one call of train_model
Run ==
    \/ GetEngineFails \/ ReadFails \/ Learn
    \/ Archive \/ SkipArchive \/ ArchiveNameTaken
    \/ Truncate \/ InsertRow \/ Commit \/ PublishFails

Next == Run \/ NextRun

\* ------------------------------------------------------------ scenarios

\* the pure-function harness is not in use
FunIdle ==
    /\ input = <<>> /\ variant = <<>> /\ out1 = <<>> /\ out2 = <<>> /\ fpc = "off"

RowA(m, h, n, d) ==
    [mawb_no |-> m, hawb_no |-> h, item_no |-> n, description_original |-> d]

RowB(m, h, n, o) ==
    [mawb_no |-> m, hawb_no |-> h, item_sequence |-> n,
     description_official |-> o[1], ccc_code |-> o[2]]

OldRecord ==
    [original_description |-> <<"A">>, official_description |-> "D0",
     ccc_code |-> "C0", frequency |-> 1]

Outcomes == {<<"D1", "C1">>, <<"D2", "C2">>}

\* raw descriptions: two spellings of one description, another one, and one
\* whose last segment is empty
VoteDescs == {<<"a">>, <<"A", "-">>, <<"b">>, <<"b", "/">>}

PubDescs == {<<"a">>, <<"b">>, <<"b", "/">>}

\* linkage profile: rows of two shipments in any arrival order, numbered as
\* they arrive
LinkTables ==
    /\ \E n \in 0..MaxLink : \E m \in [1..n -> {<<"a", "-">>, <<"b">>}] :
          tableA = [i \in 1..n |-> RowA(m[i], <<"h">>, i, <<"a">>)]
    /\ \E n \in 0..MaxLink : \E m \in [1..n -> {<<"A">>, <<"B">>}] :
          tableB = [i \in 1..n |-> RowB(m[i], <<"H">>, i, <<"D1", "C1">>)]

\* ordering profile: one shipment, ordinals free on both sides (out of order,
\* duplicated), each row told apart by its description
OrderTables ==
    /\ \E n \in 0..MaxLink : \E o \in [1..n -> 1..MaxOrd] :
          tableA = [i \in 1..n |->
                      RowA(<<"a", "-">>, <<"h">>, o[i],
                           IF i % 2 = 1 THEN <<"a">> ELSE <<"b">>)]
    /\ \E n \in 0..MaxLink : \E o \in [1..n -> 1..MaxOrd] :
          tableB = [i \in 1..n |->
                      RowB(<<"A">>, <<"H">>, o[i],
                           IF i % 2 = 1 THEN <<"D1", "C1">> ELSE <<"D2", "C2">>)]

\* voting profile: one shipment with as many items on either side
VoteTables ==
    \E n \in 0..MaxVote : \E d \in [1..n -> VoteDescs] : \E o \in [1..n -> Outcomes] :
        /\ tableA = [i \in 1..n |-> RowA(<<"a", "-">>, <<"h">>, i, d[i])]
        /\ tableB = [i \in 1..n |-> RowB(<<"A">>, <<"H">>, i, o[i])]

\* publish profile: one shipment, either side of any size
PubTables ==
    /\ \E n \in 0..MaxPub : \E d \in [1..n -> PubDescs] :
          tableA = [i \in 1..n |-> RowA(<<"a", "-">>, <<"h">>, i, d[i])]
    /\ \E n \in 0..MaxPub :
          tableB = [i \in 1..n |-> RowB(<<"A">>, <<"H">>, i, <<"D1", "C1">>)]

\* train_model is about to be called
RunStart(allowed) ==
    /\ pc = "idle"
    /\ final_valid_keys = {} /\ pairs = <<>> /\ final_records = <<>>
    /\ pending = <<>> /\ toInsert = <<>>
    /\ now = 0 /\ runs = 1 /\ runsAllowed = allowed
    /\ outcome = "none" /\ returned = "none"
    /\ kb0 = kb /\ backups0 = backups

\* the knowledge table is empty, or holds a row; an archive of this very second
\* may exist
StoreStart ==
    \/ kb = <<>> /\ backups = {}
    \/ kb = <<OldRecord>> /\ backups = {}
    \/ kb = <<OldRecord>> /\ backups = {[name |-> BackupName(0), rows |-> <<OldRecord>>]}

\* sequential runs over the publish profile
Init ==
    /\ FunIdle
    /\ PubTables
    /\ kb \in {<<>>, <<OldRecord>>}
    /\ backups = {}
    /\ RunStart(MaxRuns)

Spec == Init /\ [][Next]_vars

\* one call of train_model over each profile
InitLearn ==
    /\ FunIdle
    /\ \/ (LinkTables \/ OrderTables \/ VoteTables) /\ kb = <<OldRecord>> /\ backups = {}
       \/ PubTables /\ StoreStart
    /\ RunStart(1)

SpecLearn == InitLearn /\ [][Run]_vars

\* ------------------------------------------------- claims on train_model

FailedOutcomes == {"no_engine", "read_error", "publish_error"}

\* the run got past the validator
Learned == pc \in PublishPcs \/ (pc = "done" /\ outcome \notin FailedOutcomes)

AllKeys == KeysOf(tableA) \cup KeysOf(tableB)

NumA(k) == Cardinality({i \in DOMAIN tableA : LinkKey(tableA[i]) = k})

NumB(k) == Cardinality({i \in DOMAIN tableB : LinkKey(tableB[i]) = k})

\* count_A(k) == count_B(k) > 0
EqualCounts(k) == NumA(k) = NumB(k) /\ NumA(k) > 0

KeyOfPair(p) == LinkKey(tableA[pairs[p][1]])

\* the triples the aggregator reads
Seen == Triples(tableA, tableB, pairs)

Group(src) == {p \in DOMAIN pairs : Seen[p].src = src}

Occurrences(src, tgt) == Cardinality({p \in Group(src) : Seen[p].tgt = tgt})

FirstSeen(src, tgt) ==
    CHOOSE p \in Group(src) :
        Seen[p].tgt = tgt /\ \A q \in Group(src) : Seen[q].tgt = tgt => p <= q

TargetOf(rec) == <<rec.official_description, rec.ccc_code>>

\* nothing can be learned from the two tables: every item of a key with equal
\* counts has an empty normalized description (no such key, no rows at all)
LearnedNothing ==
    \A i \in DOMAIN tableA :
        EqualCounts(LinkKey(tableA[i])) =>
            normalize_text(tableA[i].description_original) = <<>>

\* C1: a failed publish leaves the knowledge table exactly as it was before the
\* run, whatever the failure point (after archive, after delete, after a
\* partial insert).
C1_PublishAtomic ==
    (pc = "done" /\ outcome = "publish_error") => kb = kb0

\* C2: when a run learns nothing (no rows, no valid key, or only empty
\* normalized descriptions) the publish step is never entered: the knowledge
\* table and the archives stay as they were and no relation is created.
C2_NoOp ==
    LearnedNothing =>
        /\ pc \notin PublishPcs
        /\ pending = <<>>
        /\ kb = kb0
        /\ backups = backups0

C2_Witness ==
    /\ pc = "done"
    /\ outcome = "no_records"
    /\ final_valid_keys # {}
    /\ LearnedNothing
    /\ kb # <<>>

\* C3: after a publish that completes, the knowledge table holds exactly the
\* records of this run; an archive was created in it iff the table was not
\* empty before, and then it holds the table's full prior contents.
C3_FullReplacement ==
    (pc = "done" /\ outcome = "ok") =>
        /\ kb = final_records
        /\ backups0 \subseteq backups
        /\ IF kb0 = <<>>
           THEN backups = backups0
           ELSE /\ Cardinality(backups \ backups0) = 1
                /\ \A b \in backups \ backups0 : b.rows = kb0

C3_Witness ==
    /\ pc = "done" /\ outcome = "ok"
    /\ kb0 # <<>>
    /\ Len(kb) = 2
    /\ backups # backups0

\* C4: a key is among the valid keys iff it occurs on both sides with equal
\* item counts; one-sided keys and keys with unequal counts are never valid.
C4_ValidatorSound ==
    Learned =>
        /\ final_valid_keys \subseteq AllKeys
        /\ \A k \in AllKeys : k \in final_valid_keys <=> EqualCounts(k)

C4_Witness ==
    /\ Learned
    /\ final_valid_keys # {}
    /\ \E k \in AllKeys : NumA(k) > 0 /\ NumB(k) = 0

\* C5: every valid key yields exactly count_A(key) correspondences, the i-th
\* pairing the raw item of i-th smallest ordinal with the official item of i-th
\* smallest sequence; no correspondence crosses keys or touches an invalid key.
C5_Alignment ==
    Learned =>
        /\ \A k \in AllKeys :
              Cardinality({p \in DOMAIN pairs : KeyOfPair(p) = k})
                 = IF EqualCounts(k) THEN NumA(k) ELSE 0
        /\ \A p \in DOMAIN pairs :
              /\ LinkKey(tableB[pairs[p][2]]) = KeyOfPair(p)
              /\ EqualCounts(KeyOfPair(p))
        /\ \A p, q \in DOMAIN pairs :
              p # q => pairs[p][1] # pairs[q][1] /\ pairs[p][2] # pairs[q][2]
        /\ \A p, q \in DOMAIN pairs :
              (p < q /\ KeyOfPair(p) = KeyOfPair(q)) =>
                  /\ tableA[pairs[p][1]].item_no <= tableA[pairs[q][1]].item_no
                  /\ tableB[pairs[p][2]].item_sequence
                        <= tableB[pairs[q][2]].item_sequence

C5_Witness ==
    /\ Learned
    /\ Len(pairs) = 2
    /\ pairs[1] = <<2, 1>>
    /\ tableA[2].item_no < tableA[1].item_no

\* C6: the record of a group carries a pair with the highest occurrence count
\* of the group, its frequency is that count, and among pairs tied for the
\* highest count the first seen is produced.
C6_Aggregator ==
    Learned =>
        /\ \A p \in DOMAIN pairs :
              Seen[p].src # <<>> =>
                 \E r \in DOMAIN final_records :
                    final_records[r].original_description = Seen[p].src
        /\ \A r \in DOMAIN final_records :
              LET rec == final_records[r]
                  src == rec.original_description
                  tgt == TargetOf(rec)
              IN /\ Occurrences(src, tgt) >= 1
                 /\ rec.frequency = Occurrences(src, tgt)
                 /\ \A p \in Group(src) :
                       /\ Occurrences(src, Seen[p].tgt) <= Occurrences(src, tgt)
                       /\ Occurrences(src, Seen[p].tgt) = Occurrences(src, tgt)
                             => FirstSeen(src, tgt) <= p

\* a group whose two outcome pairs tie, and the record is the first seen of them
C6_Witness ==
    /\ Learned
    /\ \E r \in DOMAIN final_records :
          LET rec == final_records[r]
              src == rec.original_description
          IN \E p \in Group(src) :
                /\ Seen[p].tgt # TargetOf(rec)
                /\ Occurrences(src, Seen[p].tgt) = rec.frequency

\* C7: the records are exactly one per distinct non-empty normalized source
\* description among the correspondences, none has an empty
\* original_description, and 1 <= frequency <= size of the record's group.
C7_RecordSet ==
    Learned =>
        LET srcs == {Seen[p].src : p \in DOMAIN pairs} \ {<<>>}
        IN /\ {final_records[r].original_description : r \in DOMAIN final_records}
                 = srcs
           /\ Len(final_records) = Cardinality(srcs)
           /\ \A r \in DOMAIN final_records :
                 /\ final_records[r].original_description # <<>>
                 /\ 1 <= final_records[r].frequency
                 /\ final_records[r].frequency
                       <= Cardinality(Group(final_records[r].original_description))

C7_Witness ==
    /\ Learned
    /\ Len(final_records) = 2
    /\ \E p \in DOMAIN pairs : Seen[p].src = <<>>

\* C8: a run that fails on connectivity or in the publish step surfaces the
\* failure to its caller, who can tell it from a successful run and from an
\* empty-input early exit; no other outcome aborts the run.
C8_FailureSurfaced ==
    pc = "done" =>
        /\ outcome \in FailedOutcomes => returned = "raised"
        /\ outcome \notin FailedOutcomes => returned = "None"

\* ------------------------------------------------ pure-function harness

KeyAlphabet == {"a", "A", "_", " ", "\t", "-", "/"}

TextAlphabet == {"a", "A", "_", " ", "\t", "/", "-", "FW/", "FWa", "kra"}

\* Unicode general category Ll (lowercase letter)
IsLower(c) == c \in {"a", "b", "h", "kra", "FWa"}

InsertAt(s, i, c) == SubSeq(s, 1, i) \o <<c>> \o SubSeq(s, i + 1, Len(s))

FlipCase(c) == CASE c = "a" -> "A" [] c = "A" -> "a" [] OTHER -> c

\* the variable values of a store on which no run is scheduled
PipeIdle ==
    /\ tableA = <<>> /\ tableB = <<>> /\ kb = <<>> /\ backups = {}
    /\ pc = "off" /\ final_valid_keys = {} /\ pairs = <<>> /\ final_records = <<>>
    /\ pending = <<>> /\ toInsert = <<>> /\ now = 0 /\ runs = 0 /\ runsAllowed = 0
    /\ outcome = "none" /\ returned = "none" /\ kb0 = <<>> /\ backups0 = {}

InitKey ==
    /\ PipeIdle
    /\ input \in StringsUpTo(KeyAlphabet, MaxKeyLen)
    /\ variant = input
    /\ out1 = <<>> /\ out2 = <<>> /\ fpc = "input"

\* a second identifier that differs from the first by one separator or by case
KeyVary ==
    /\ fpc = "input" /\ variant = input
    /\ \/ /\ Len(input) < MaxKeyLen
          /\ \E i \in 0..Len(input), c \in {" ", "\t", "/", "-"} :
                variant' = InsertAt(input, i, c)
       \/ \E i \in 1..Len(input) :
             /\ FlipCase(input[i]) # input[i]
             /\ variant' = [input EXCEPT ![i] = FlipCase(input[i])]
    /\ UNCHANGED <<input, out1, out2, fpc>>
    /\ UNCHANGED pipeVars

KeyApply ==
    /\ fpc = "input"
    /\ out1' = Canonicalize(variant)
    /\ fpc' = "once"
    /\ UNCHANGED <<input, variant, out2>>
    /\ UNCHANGED pipeVars

KeyReapply ==
    /\ fpc = "once"
    /\ out2' = Canonicalize(out1)
    /\ fpc' = "twice"
    /\ UNCHANGED <<input, variant, out1>>
    /\ UNCHANGED pipeVars

NextKey == KeyVary \/ KeyApply \/ KeyReapply

SpecKey == InitKey /\ [][NextKey]_vars

InitText ==
    /\ PipeIdle
    /\ input \in StringsUpTo(TextAlphabet, MaxTextLen)
    /\ variant = input
    /\ out1 = <<>> /\ out2 = <<>> /\ fpc = "input"

TextApply ==
    /\ fpc = "input"
    /\ out1' = normalize_text(input)
    /\ fpc' = "once"
    /\ UNCHANGED <<input, variant, out2>>
    /\ UNCHANGED pipeVars

TextReapply ==
    /\ fpc = "once"
    /\ out2' = normalize_text(out1)
    /\ fpc' = "twice"
    /\ UNCHANGED <<input, variant, out1>>
    /\ UNCHANGED pipeVars

NextText == TextApply \/ TextReapply

SpecText == InitText /\ [][NextText]_vars

\* ----------------------------------------------------------------- C9
\* C9: key canonicalization is total and idempotent, its output holds no
\* whitespace, "/" or "-", and two identifiers that differ only in case or in
\* such separators canonicalize to the same value.
C9_CanonicalizeIdempotent ==
    /\ fpc \in {"once", "twice"} =>
          /\ \A i \in 1..Len(out1) : ~IsSpace(out1[i]) /\ out1[i] \notin {"/", "-"}
          /\ out1 = Canonicalize(input)
    /\ fpc = "twice" => out2 = out1
    /\ Canonicalize(<<"a", "h", " ", "/", " ", "b", "1">>) = <<"A", "H", "B", "1">>

C9_Witness ==
    /\ fpc = "twice"
    /\ variant # input
    /\ out1 # variant
    /\ \E i \in 1..Len(variant) : IsKeySep(variant[i])
    /\ \E i \in 1..Len(variant) : variant[i] = "a"

\* ---------------------------------------------------------------- C10
\* C10 as stated: normalize_text is idempotent and its output never holds "/",
\* a lowercase letter, a punctuation character, a leading or trailing space, or
\* two consecutive spaces.
C10_AsStated ==
    /\ fpc = "twice" => out2 = out1
    /\ fpc \in {"once", "twice"} =>
          /\ \A i \in 1..Len(out1) :
                out1[i] # "/" /\ ~IsLower(out1[i]) /\ ~IsPunct(out1[i])
          /\ out1 # <<>> => ~IsSpace(out1[1]) /\ ~IsSpace(out1[Len(out1)])
          /\ \A i \in 1..(Len(out1) - 1) : ~(IsSpace(out1[i]) /\ IsSpace(out1[i + 1]))

\* C10 amended: normalize_text is idempotent and its output never holds "/", a
\* letter that has a distinct uppercase form, a punctuation character other than
\* the underscore, whitespace other than single inner spaces.
C10_NormalizeIdempotent ==
    /\ fpc = "twice" => out2 = out1
    /\ fpc \in {"once", "twice"} =>
          /\ \A i \in 1..Len(out1) :
                /\ out1[i] # "/"
                /\ ~HasUpper(out1[i])
                /\ IsPunct(out1[i]) => out1[i] = "_"
                /\ IsSpace(out1[i]) => out1[i] = " "
          /\ out1 # <<>> => ~IsSpace(out1[1]) /\ ~IsSpace(out1[Len(out1)])
          /\ \A i \in 1..(Len(out1) - 1) : ~(IsSpace(out1[i]) /\ IsSpace(out1[i + 1]))

C10_Witness ==
    /\ fpc = "twice"
    /\ ContainsSlash(NFKC(input))
    /\ out1 # <<>>
    /\ Len(out1) < Len(input)
    /\ \E i \in 1..Len(input) : HasUpper(input[i])

\* ------------------------------------------- last-segment rule harness

SegAlphabet == {"a", "A", "_", " ", "-", "/", "FW/", "iota_dt"}

InitSegment ==
    /\ PipeIdle
    /\ input \in StringsUpTo(SegAlphabet, MaxTextLen)
    /\ variant = input
    /\ out1 = <<>> /\ out2 = <<>> /\ fpc = "input"

\* the voting loop and the record list for one item whose normalized source
\* description is out1
SegmentVote ==
    /\ fpc = "once"
    /\ final_records' =
          FinalRecords(Vote(<<>>, <<[src |-> out1, tgt |-> <<"D1", "C1">>]>>))
    /\ fpc' = "voted"
    /\ UNCHANGED <<input, variant, out1, out2>>
    /\ UNCHANGED <<tableA, tableB, kb, backups, pc, final_valid_keys, pairs,
                   pending, toInsert, now, runs, runsAllowed, outcome, returned,
                   kb0, backups0>>

NextSegment == TextApply \/ SegmentVote

SpecSegment == InitSegment /\ [][NextSegment]_vars

\* the text after the last "/" (the whole text when it holds none)
RECURSIVE AfterLastSlash(_)
AfterLastSlash(s) ==
    IF s = <<>> \/ s[Len(s)] = "/" THEN <<>>
    ELSE AfterLastSlash(SubSeq(s, 1, Len(s) - 1)) \o <<s[Len(s)]>>

\* the width-normalized, uppercased text of the input
UpperText == Upper(NFKC(input))

\* ---------------------------------------------------------------- C11
\* C11 as stated: when the width-normalized, uppercased text holds a "/", the
\* result is the normalization of the text after the last "/"; when that
\* segment is empty or only punctuation and whitespace, the result is empty and
\* the item is excluded from aggregation.
C11_AsStated ==
    (fpc \in {"once", "voted"} /\ ContainsSlash(UpperText)) =>
        LET seg == AfterLastSlash(UpperText)
        IN /\ out1 = normalize_text(seg)
           /\ (\A i \in 1..Len(seg) : IsPunct(seg[i]) \/ IsSpace(seg[i])) =>
                 /\ out1 = <<>>
                 /\ fpc = "voted" => final_records = <<>>

\* C11 amended: the result is steps 4 and 5 (other characters to spaces,
\* collapse, trim) applied to the text after the last "/" of the
\* width-normalized, uppercased text, which is not width-normalized again; when
\* that segment holds no letter, digit or underscore the result is empty and
\* the item is excluded from aggregation, otherwise it yields a record.
C11_LastSegment ==
    (fpc \in {"once", "voted"} /\ ContainsSlash(UpperText)) =>
        LET seg == AfterLastSlash(UpperText)
        IN /\ out1 = CleanSpaces(seg)
           /\ (\A i \in 1..Len(seg) : ~IsWord(seg[i])) <=> out1 = <<>>
           /\ fpc = "voted" =>
                 IF out1 = <<>> THEN final_records = <<>>
                 ELSE /\ Len(final_records) = 1
                      /\ final_records[1].original_description = out1

\* text precedes the slash, the trailing segment is only punctuation: excluded
C11_Witness ==
    /\ fpc = "voted"
    /\ Len(input) = MaxTextLen
    /\ IsWord(input[1])
    /\ ContainsSlash(UpperText)
    /\ AfterLastSlash(UpperText) # <<>>
    /\ out1 = <<>>
    /\ final_records = <<>>

\* ---------------------------------------------------------------- C12
\* C12: across sequential runs no archive is ever modified or removed; a
\* publish that finds the knowledge table non-empty creates an archive under a
\* name no existing archive has, also when the previous run archived in the
\* same clock second; and a run adds one archive when its publish succeeds on a
\* non-empty table and none otherwise, so that archives and such publishes are
\* equal in number.
C12_ArchiveRetention ==
    /\ backups0 \subseteq backups
    /\ (pc = "begin" /\ kb # <<>>) => ~BackupExists(now)
    /\ pc = "done" =>
          Cardinality(backups \ backups0) =
              IF outcome = "ok" /\ kb0 # <<>> THEN 1 ELSE 0

\* ----------------------------------------------- linkage key harness

IdAlphabet == {"A", "_", "-"}

\* the (master id, house id) pairs of one row
IdPairs ==
    {p \in StringsUpTo(IdAlphabet, MaxPairLen) \X StringsUpTo(IdAlphabet, MaxPairLen) :
        Len(p[1]) + Len(p[2]) <= MaxPairLen}

\* one source item and one declared item, each with any ids
InitLink ==
    /\ FunIdle
    /\ \E a \in IdPairs : tableA = <<RowA(a[1], a[2], 1, <<"a">>)>>
    /\ \E b \in IdPairs : tableB = <<RowB(b[1], b[2], 1, <<"D1", "C1">>)>>
    /\ kb = <<>> /\ backups = {}
    /\ RunStart(1)

SpecLink == InitLink /\ [][Learn]_vars

\* ---------------------------------------------------------------- C13
\* C13: two items are counted and paired under one link_key only if their
\* canonicalized master ids are equal and their canonicalized house ids are
\* equal: the key never joins items of different shipments.
C13_KeyInjective ==
    /\ Learned =>
          \A i \in DOMAIN tableA : \A j \in DOMAIN tableB :
              LinkKey(tableA[i]) = LinkKey(tableB[j]) =>
                  /\ Canonicalize(tableA[i].mawb_no) = Canonicalize(tableB[j].mawb_no)
                  /\ Canonicalize(tableA[i].hawb_no) = Canonicalize(tableB[j].hawb_no)
    /\ \A p \in DOMAIN pairs :
          /\ Canonicalize(tableA[pairs[p][1]].mawb_no) =
                Canonicalize(tableB[pairs[p][2]].mawb_no)
          /\ Canonicalize(tableA[pairs[p][1]].hawb_no) =
                Canonicalize(tableB[pairs[p][2]].hawb_no)

====
